---- MODULE Spec2Model ----
(***************************************************************************)
(* The PouchDB tile cache of TileLayer.js: createTile with the cache       *)
(* lookup (_onCacheLookup), the <img> load/error events, _saveTile, and    *)
(* the seed driver (seed, _seedOneTile).                                   *)
(*                                                                         *)
(* The <img> element is modelled by what the source relies on: assigning   *)
(* src starts a load (replacing one still in flight), and the load ends    *)
(* with exactly one load or error event handed to the handler installed    *)
(* at that moment.  A load of the tile URL is a transport request and may  *)
(* fail; a data URL read from the store and the empty image always load.   *)
(*                                                                         *)
(* The store is the PouchDB database of line 251.  Its calls are           *)
(* asynchronous: get hands its result to a callback, remove and put are    *)
(* issued without a callback.  Pending calls are served in the order they  *)
(* were issued.  One document per key: a put without a revision onto a     *)
(* live document is rejected (conflict), a remove of a revision that is    *)
(* not the live one is rejected.                                           *)
(*                                                                         *)
(* options.errorTileUrl keeps its default '' (line 58) and the layer is    *)
(* on a map (this._map, line 411).                                         *)
(***************************************************************************)
EXTENDS Integers, Sequences, FiniteSets, TLC

VARIABLES options, now, store, nextRev, storeQ, tiles, seeds

vars == <<options, now, store, nextRev, storeQ, tiles, seeds>>

\* ---------------------------------------------------------------- bounds
\* the last tick of the clock
MaxTime == 1
\* calls of createTile and seed, together
MaxCalls == 2

\* options.cacheMaxAge = 24*3600*1000 ms; one tick of the clock is 24 hours
cacheMaxAge == 1

cacheFormat == "image/png"

Keys == {"A", "B"}
Zooms == {0, 1}

\* The tile addressing of seed's loops: the urls of the tiles the bbox covers
\* at zoom z, in the order the loops push them.
TileUrlsAt(z) == IF z = 0 THEN <<"A">> ELSE <<"B">>

Tiles == 1..MaxCalls
Seeds == 1..MaxCalls

\* ---------------------------------------------------------------- values
NoRev == 0
\* an <img> that has loaded nothing, and the image of L.Util.emptyImageUrl
NoImage == [of |-> "", at |-> 0]
BlankImage == [of |-> "empty", at |-> 0]

\* canvas.toDataURL(cacheFormat) of a drawn image, and the image a data URL
\* decodes to when it is assigned to src
Encode(img) == [fmt |-> cacheFormat, px |-> img]
Decode(blob) == blob.px
NoBlob == [fmt |-> "", px |-> NoImage]

\* what the tile server sends for a url at the present time
RemoteImage(k) == [of |-> k, at |-> now]

NoData == [blob |-> NoBlob, ts |-> 0, rev |-> NoRev]

NoTile ==
  [used |-> FALSE, key |-> "", lookup |-> "none", storeErr |-> FALSE,
   data |-> NoData, stale |-> FALSE,
   onload |-> "none", rev |-> NoRev, onerror |-> "none",
   src |-> "none", srcBlob |-> NoBlob, loading |-> FALSE, img |-> NoImage,
   requests |-> 0, fetchFailed |-> FALSE, fetchOk |-> FALSE,
   saved |-> "none", dones |-> <<>>]

NoSeed ==
  [st |-> "unused", minZoom |-> 0, maxZoom |-> 0, seedstart |-> 0,
   queueLength |-> 0, remaining |-> <<>>, url |-> "", waiting |-> "none",
   progress |-> <<>>, seedend |-> 0, requests |-> 0, lookups |-> 0,
   storeErr |-> FALSE, failed |-> "none", img |-> NoImage]

nTiles == Cardinality({t \in Tiles : tiles[t].used})
nSeeds == Cardinality({s \in Seeds : seeds[s].st # "unused"})

\* ---------------------------------------------------------------- store calls
GetOp(by, id, k) ==
  [op |-> "get", by |-> by, id |-> id, key |-> k, rev |-> NoRev,
   blob |-> NoBlob, ts |-> 0]
RemoveOp(by, id, k, rev) ==
  [op |-> "remove", by |-> by, id |-> id, key |-> k, rev |-> rev,
   blob |-> NoBlob, ts |-> 0]
PutOp(by, id, k, blob, ts) ==
  [op |-> "put", by |-> by, id |-> id, key |-> k, rev |-> NoRev,
   blob |-> blob, ts |-> ts]

\* what db.get hands to its callback: (err, data)
GetResults(k) ==
  {[err |-> FALSE, data |-> r] : r \in store[k]}
    \cup (IF store[k] = {} THEN {[err |-> FALSE, data |-> NoData]} ELSE {})
    \cup {[err |-> TRUE, data |-> NoData]}

\* ---------------------------------------------------------------- createTile
\* done(err, tile): what the caller is told, and what the element shows then
Done(tile, err) ==
  [tile EXCEPT !.dones = Append(@, [err |-> err, src |-> tile.src,
                                     blob |-> tile.srcBlob, img |-> tile.img])]

\* tile.src = tileUrl: a transport request
SetSrcUrl(tile) ==
  [tile EXCEPT !.src = "url", !.srcBlob = NoBlob, !.loading = TRUE,
               !.requests = @ + 1]

\* tile.src = dataUrl
SetSrcData(tile, blob) ==
  [tile EXCEPT !.src = "dataUrl", !.srcBlob = blob, !.loading = TRUE]

\* tile.src = L.Util.emptyImageUrl
SetSrcEmpty(tile) ==
  [tile EXCEPT !.src = "empty", !.srcBlob = NoBlob, !.loading = TRUE]

\* createTile consulting the store whatever the options say
UseStoreAlways == TRUE

\* createTile without the test of this._canvas
UseStoreWithoutCanvas == options.useCache

UseStore == options.useCache /\ options.canvas

CreateTile(k) ==
  /\ nTiles + nSeeds < MaxCalls
  /\ LET t == nTiles + 1
         tile == [NoTile EXCEPT !.used = TRUE, !.key = k,
                                !.onerror = "tileOnError",
                                !.lookup = IF UseStore THEN "pending" ELSE "none",
                                !.onload = IF UseStore THEN "none" ELSE "tileOnLoad"]
     IN /\ tiles' = [tiles EXCEPT ![t] = SetSrcUrl(tile)]
        /\ storeQ' = IF UseStore THEN Append(storeQ, GetOp("tile", t, k))
                                 ELSE storeQ
  /\ UNCHANGED <<options, now, store, nextRev, seeds>>

IsStale(data) == now > data.ts + cacheMaxAge

\* the callback _onCacheLookup returns, run with (err, data)
OnCacheLookup(tile, res) ==
  IF res.data # NoData
  THEN \* fire tilecachehit
       LET hit == [tile EXCEPT !.lookup = "hit", !.data = res.data,
                               !.stale = IsStale(res.data)]
       IN IF IsStale(res.data) /\ ~options.useOnlyCache
          THEN LET h == IF options.saveToCache
                        THEN [hit EXCEPT !.onload = "saveTile",
                                         !.rev = res.data.rev]
                        ELSE hit
               IN [SetSrcUrl(h) EXCEPT !.onerror = "fallback"]
          ELSE SetSrcData([hit EXCEPT !.onload = "tileOnLoad"], res.data.blob)
  ELSE \* fire tilecachemiss
       LET miss == [tile EXCEPT !.lookup = "miss", !.storeErr = res.err]
       IN IF options.useOnlyCache
          THEN SetSrcEmpty([miss EXCEPT !.onload = "falseFn"])
          ELSE SetSrcUrl([miss EXCEPT
                 !.onload = IF options.saveToCache THEN "saveTile"
                                                    ELSE "tileOnLoad",
                 !.rev = NoRev])

\* db.get's callback of createTile runs
TileLookup ==
  /\ storeQ # <<>>
  /\ Head(storeQ).op = "get" /\ Head(storeQ).by = "tile"
  /\ LET t == Head(storeQ).id
     IN \E res \in GetResults(Head(storeQ).key) :
          tiles' = [tiles EXCEPT ![t] = OnCacheLookup(tiles[t], res)]
  /\ storeQ' = Tail(storeQ)
  /\ UNCHANGED <<options, now, store, nextRev, seeds>>

\* _saveTile without context.drawImage: the canvas that is encoded is blank
SaveOpsUndrawn(by, id, k, existingRevision, img) ==
  (IF existingRevision # NoRev
   THEN <<RemoveOp(by, id, k, existingRevision)>> ELSE <<>>)
    \o <<PutOp(by, id, k, Encode(BlankImage), now)>>

\* the store calls _saveTile issues once the image is encoded
SaveOps(by, id, k, existingRevision, img) ==
  (IF existingRevision # NoRev
   THEN <<RemoveOp(by, id, k, existingRevision)>> ELSE <<>>)
    \o <<PutOp(by, id, k, Encode(img), now)>>

\* the image an assignment to src loads
Loaded(tile) ==
  IF tile.src = "url" THEN RemoteImage(tile.key)
  ELSE IF tile.src = "dataUrl" THEN Decode(tile.srcBlob)
  ELSE BlankImage

\* toDataURL returns or throws
EncodeOutcomes(handler) ==
  IF handler = "saveTile" THEN {"ok", "throws"} ELSE {"ok"}

\* _saveTile's catch returning without a call of done
SaveFailedSilently(tile) == [tile EXCEPT !.saved = "throws"]

\* _saveTile's catch: fire tilecacheerror; return done()
SaveFailed(tile) == Done([tile EXCEPT !.saved = "throws"], FALSE)

\* the load event of a tile of createTile: _tileOnLoad, _saveTile, falseFn,
\* or no handler
TileLoad(t) ==
  /\ tiles[t].used /\ tiles[t].loading
  /\ LET tile == [tiles[t] EXCEPT !.loading = FALSE, !.img = Loaded(tiles[t]),
                                  !.fetchOk = @ \/ tiles[t].src = "url"]
     IN \E enc \in EncodeOutcomes(tile.onload) :
          CASE tile.onload = "tileOnLoad" ->
                 /\ tiles' = [tiles EXCEPT ![t] = Done(tile, FALSE)]
                 /\ storeQ' = storeQ
            [] tile.onload = "saveTile" /\ enc = "throws" ->
                 /\ tiles' = [tiles EXCEPT ![t] = SaveFailed(tile)]
                 /\ storeQ' = storeQ
            [] tile.onload = "saveTile" /\ enc = "ok" ->
                 /\ tiles' = [tiles EXCEPT ![t] =
                                Done([tile EXCEPT !.saved = "ok"], FALSE)]
                 /\ storeQ' = storeQ \o SaveOps("tile", t, tile.key, tile.rev,
                                                tile.img)
            [] OTHER ->
                 /\ tiles' = [tiles EXCEPT ![t] = tile]
                 /\ storeQ' = storeQ
  /\ UNCHANGED <<options, now, store, nextRev, seeds>>

\* the error event of a tile of createTile: _tileOnError, or the fallback
\* handler of the stale branch
TileError(t) ==
  /\ tiles[t].used /\ tiles[t].loading /\ tiles[t].src = "url"
  /\ LET tile == [tiles[t] EXCEPT !.loading = FALSE, !.fetchFailed = TRUE]
     IN tiles' = [tiles EXCEPT ![t] =
          IF tile.onerror = "fallback"
          THEN SetSrcData(tile, tile.data.blob)
          ELSE Done(tile, TRUE)]
  /\ UNCHANGED <<options, now, store, nextRev, storeQ, seeds>>

\* ---------------------------------------------------------------- the store
\* a database that accepts a put without a revision onto a live document
StorePutNoConflict ==
  /\ storeQ # <<>> /\ Head(storeQ).op = "put"
  /\ LET o == Head(storeQ)
     IN /\ store' = [store EXCEPT ![o.key] =
                       @ \cup {[blob |-> o.blob, ts |-> o.ts, rev |-> nextRev]}]
        /\ nextRev' = nextRev + 1
  /\ storeQ' = Tail(storeQ)
  /\ UNCHANGED <<options, now, tiles, seeds>>

StorePut ==
  /\ storeQ # <<>> /\ Head(storeQ).op = "put"
  /\ LET o == Head(storeQ)
     IN IF store[o.key] = {}
        THEN /\ store' = [store EXCEPT ![o.key] =
                            {[blob |-> o.blob, ts |-> o.ts, rev |-> nextRev]}]
             /\ nextRev' = nextRev + 1
        ELSE UNCHANGED <<store, nextRev>>
  /\ storeQ' = Tail(storeQ)
  /\ UNCHANGED <<options, now, tiles, seeds>>

StoreRemove ==
  /\ storeQ # <<>> /\ Head(storeQ).op = "remove"
  /\ LET o == Head(storeQ)
     IN store' = [store EXCEPT ![o.key] = {r \in @ : r.rev # o.rev}]
  /\ storeQ' = Tail(storeQ)
  /\ UNCHANGED <<options, now, nextRev, tiles, seeds>>

\* Date.now() advances
Tick ==
  /\ now < MaxTime
  /\ now' = now + 1
  /\ UNCHANGED <<options, store, nextRev, storeQ, tiles, seeds>>

\* ---------------------------------------------------------------- seed
RECURSIVE SeedQueue(_, _)
\* the queue seed's loops build for minZoom..maxZoom
SeedQueue(z, maxZoom) ==
  IF z > maxZoom THEN <<>> ELSE TileUrlsAt(z) \o SeedQueue(z + 1, maxZoom)

\* _seedOneTile firing seedprogress after remaining.pop()
SeedOneTileAfterPop(s, sd, q) ==
  IF sd.remaining = <<>>
  THEN /\ seeds' = [seeds EXCEPT ![s] = [sd EXCEPT !.seedend = @ + 1,
                                                   !.st = "ended",
                                                   !.waiting = "none",
                                                   !.storeErr = FALSE]]
       /\ storeQ' = q
  ELSE LET n == Len(sd.remaining)
           url == sd.remaining[n]
       IN /\ seeds' = [seeds EXCEPT ![s] =
                         [sd EXCEPT !.progress = Append(@, n - 1),
                                    !.remaining = SubSeq(sd.remaining, 1, n - 1),
                                    !.url = url,
                                    !.waiting = "lookup",
                                    !.storeErr = FALSE,
                                    !.lookups = @ + 1]]
          /\ storeQ' = Append(q, GetOp("seed", s, url))

\* _seedOneTile(tile, remaining, seedData), for the invocation sd, with q
\* the store calls pending when it is entered
SeedOneTile(s, sd, q) ==
  IF sd.remaining = <<>>
  THEN \* fire seedend
       /\ seeds' = [seeds EXCEPT ![s] = [sd EXCEPT !.seedend = @ + 1,
                                                   !.st = "ended",
                                                   !.waiting = "none",
                                                   !.storeErr = FALSE]]
       /\ storeQ' = q
  ELSE \* fire seedprogress; url = remaining.pop(); db.get(url, ...)
       LET n == Len(sd.remaining)
           url == sd.remaining[n]
       IN /\ seeds' = [seeds EXCEPT ![s] =
                         [sd EXCEPT !.progress = Append(@, n),
                                    !.remaining = SubSeq(sd.remaining, 1, n - 1),
                                    !.url = url,
                                    !.waiting = "lookup",
                                    !.storeErr = FALSE,
                                    !.lookups = @ + 1]]
          /\ storeQ' = Append(q, GetOp("seed", s, url))

\* seed without the test of line 410
SeedAnyZooms(minZoom, maxZoom) ==
  /\ nTiles + nSeeds < MaxCalls
  /\ LET s == nSeeds + 1
         call == [NoSeed EXCEPT !.minZoom = minZoom, !.maxZoom = maxZoom]
     IN IF ~options.useCache
        THEN /\ seeds' = [seeds EXCEPT ![s] = [call EXCEPT !.st = "returned"]]
             /\ storeQ' = storeQ
        ELSE LET queue == SeedQueue(minZoom, maxZoom)
             IN SeedOneTile(s, [call EXCEPT !.st = "running",
                                            !.seedstart = 1,
                                            !.queueLength = Len(queue),
                                            !.remaining = queue], storeQ)
  /\ UNCHANGED <<options, now, store, nextRev, tiles>>

Seed(minZoom, maxZoom) ==
  /\ nTiles + nSeeds < MaxCalls
  /\ LET s == nSeeds + 1
         call == [NoSeed EXCEPT !.minZoom = minZoom, !.maxZoom = maxZoom]
     IN IF ~options.useCache \/ minZoom > maxZoom
        THEN /\ seeds' = [seeds EXCEPT ![s] = [call EXCEPT !.st = "returned"]]
             /\ storeQ' = storeQ
        ELSE \* fire seedstart
             LET queue == SeedQueue(minZoom, maxZoom)
             IN SeedOneTile(s, [call EXCEPT !.st = "running",
                                            !.seedstart = 1,
                                            !.queueLength = Len(queue),
                                            !.remaining = queue], storeQ)
  /\ UNCHANGED <<options, now, store, nextRev, tiles>>

\* the callback of _seedOneTile going on to the next item as soon as it has
\* assigned tile.src, without waiting for the load event
SeedLookupNoWait ==
  /\ storeQ # <<>>
  /\ Head(storeQ).op = "get" /\ Head(storeQ).by = "seed"
  /\ LET s == Head(storeQ).id
     IN \E res \in GetResults(Head(storeQ).key) :
          IF res.data = NoData
          THEN SeedOneTile(s, [seeds[s] EXCEPT !.requests = @ + 1],
                           Tail(storeQ))
          ELSE SeedOneTile(s, seeds[s], Tail(storeQ))
  /\ UNCHANGED <<options, now, store, nextRev, tiles>>

\* the callback of _seedOneTile fetching again a record that is older than
\* cacheMaxAge
SeedLookupFreshness ==
  /\ storeQ # <<>>
  /\ Head(storeQ).op = "get" /\ Head(storeQ).by = "seed"
  /\ LET s == Head(storeQ).id
     IN \E res \in GetResults(Head(storeQ).key) :
          IF res.data = NoData \/ IsStale(res.data)
          THEN /\ seeds' = [seeds EXCEPT ![s].waiting = "load",
                                         ![s].storeErr = res.err,
                                         ![s].requests = @ + 1]
               /\ storeQ' = Tail(storeQ)
          ELSE SeedOneTile(s, seeds[s], Tail(storeQ))
  /\ UNCHANGED <<options, now, store, nextRev, tiles>>

\* db.get's callback of _seedOneTile runs
SeedLookup ==
  /\ storeQ # <<>>
  /\ Head(storeQ).op = "get" /\ Head(storeQ).by = "seed"
  /\ LET s == Head(storeQ).id
     IN \E res \in GetResults(Head(storeQ).key) :
          IF res.data = NoData
          THEN \* tile.onload = ...; tile.src = url
               /\ seeds' = [seeds EXCEPT ![s].waiting = "load",
                                         ![s].storeErr = res.err,
                                         ![s].requests = @ + 1]
               /\ storeQ' = Tail(storeQ)
          ELSE SeedOneTile(s, seeds[s], Tail(storeQ))
  /\ UNCHANGED <<options, now, store, nextRev, tiles>>

\* what _saveTile(tile, url, null) with no done does in the seed's onload
SeedSaveOutcomes == IF options.canvas THEN {"ok", "throws"} ELSE {"nocanvas"}

\* the load event of the seed's tile: _saveTile, then _seedOneTile
SeedLoad(s) ==
  /\ seeds[s].waiting = "load"
  /\ LET sd == [seeds[s] EXCEPT !.img = RemoteImage(seeds[s].url)]
     IN \E enc \in SeedSaveOutcomes :
          CASE enc = "nocanvas" -> SeedOneTile(s, sd, storeQ)
            [] enc = "ok" ->
                 SeedOneTile(s, sd, storeQ \o SaveOps("seed", s, sd.url, NoRev,
                                                      sd.img))
            [] OTHER ->
                 \* fire tilecacheerror; return done() with done undefined
                 \* throws, and the handler ends before _seedOneTile
                 /\ seeds' = [seeds EXCEPT ![s] =
                                [sd EXCEPT !.waiting = "none",
                                           !.failed = "encode"]]
                 /\ storeQ' = storeQ
  /\ UNCHANGED <<options, now, store, nextRev, tiles>>

\* the error event of the seed's tile: no handler is installed
SeedError(s) ==
  /\ seeds[s].waiting = "load"
  /\ seeds' = [seeds EXCEPT ![s].waiting = "none", ![s].failed = "fetch"]
  /\ UNCHANGED <<options, now, store, nextRev, storeQ, tiles>>

\* ---------------------------------------------------------------- the system
\* the init hook: no canvas without useCache
Options ==
  {o \in [useCache : BOOLEAN, saveToCache : BOOLEAN, useOnlyCache : BOOLEAN,
          canvas : BOOLEAN] : o.canvas => o.useCache}

\* the age of a document saved just now, and of one saved more than
\* cacheMaxAge ago
Ages == {0, 0 - cacheMaxAge - 1}

\* the documents the database may hold for key k from an earlier session:
\* none, or one saved at one of the times ages
KeptRecords(k, ages) ==
  {{}} \cup {{[blob |-> Encode([of |-> k, at |-> ts]), ts |-> ts, rev |-> 1]} :
              ts \in ages}

\* the databases that hold documents for the keys ks only
KeptStores(ks, ages) ==
  {f \in [Keys -> UNION {KeptRecords(k, ages) : k \in Keys}] :
     \A k \in Keys : f[k] \in (IF k \in ks THEN KeptRecords(k, ages) ELSE {{}})}

\* the layer as constructed with one of the options opts, over one of the
\* databases dbs
InitWith(opts, dbs) ==
  /\ options \in opts
  /\ now = 0
  /\ store \in dbs
  /\ nextRev = 2
  /\ storeQ = <<>>
  /\ tiles = [t \in Tiles |-> NoTile]
  /\ seeds = [s \in Seeds |-> NoSeed]

Init == InitWith(Options, KeptStores(Keys, Ages))

Next ==
  \/ \E k \in Keys : CreateTile(k)
  \/ TileLookup
  \/ \E t \in Tiles : TileLoad(t)
  \/ \E t \in Tiles : TileError(t)
  \/ \E minZoom \in Zooms, maxZoom \in Zooms : Seed(minZoom, maxZoom)
  \/ SeedLookup
  \/ \E s \in Seeds : SeedLoad(s)
  \/ \E s \in Seeds : SeedError(s)
  \/ StorePut
  \/ StoreRemove
  \/ Tick

Spec == Init /\ [][Next]_vars

\* a layer with saveToCache on and useOnlyCache off (with useCache on or off,
\* with a canvas or without), on which createTile is called for one url, also
\* concurrently, and seed is not called
ResolveInit ==
  InitWith({o \in Options : o.saveToCache /\ ~o.useOnlyCache},
           KeptStores({"A"}, Ages))

NextResolve ==
  \/ CreateTile("A")
  \/ TileLookup
  \/ \E t \in Tiles : TileLoad(t)
  \/ \E t \in Tiles : TileError(t)
  \/ StorePut
  \/ StoreRemove
  \/ Tick

ResolveSpec == ResolveInit /\ [][NextResolve]_vars

\* a layer that is only seeded, at one time of the clock: seed reads neither
\* saveToCache nor useOnlyCache, nor the age of a document, and passes no
\* existing revision to _saveTile, so no remove is issued
SeedInit ==
  InitWith({o \in Options : o.saveToCache /\ ~o.useOnlyCache},
           KeptStores(Keys, Ages))

NextSeed ==
  \/ \E minZoom \in Zooms, maxZoom \in Zooms : Seed(minZoom, maxZoom)
  \/ SeedLookup
  \/ \E s \in Seeds : SeedLoad(s)
  \/ \E s \in Seeds : SeedError(s)
  \/ StorePut

SeedSpec == SeedInit /\ [][NextSeed]_vars

\* a layer, with any options, on which createTile and seed are called for
\* the same url, in any order and concurrently, at one time of the clock
SharedInit == InitWith(Options, KeptStores({"A"}, Ages))

NextShared ==
  \/ CreateTile("A")
  \/ TileLookup
  \/ \E t \in Tiles : TileLoad(t)
  \/ \E t \in Tiles : TileError(t)
  \/ Seed(0, 0)
  \/ SeedLookup
  \/ \E s \in Seeds : SeedLoad(s)
  \/ \E s \in Seeds : SeedError(s)
  \/ StorePut
  \/ StoreRemove

SharedSpec == SharedInit /\ [][NextShared]_vars

\* ---------------------------------------------------------------- properties
\* the store calls issued by caller (by, id) that the store has not served
Pending(by, id, op) ==
  {i \in 1..Len(storeQ) :
     storeQ[i].by = by /\ storeQ[i].id = id /\ storeQ[i].op = op}

LiveRevisions(k) == Cardinality(store[k])

\* a createTile whose lookup found a record older than cacheMaxAge, with the
\* network allowed
StaleResolve(t) ==
  /\ tiles[t].used /\ tiles[t].lookup = "hit" /\ tiles[t].stale
  /\ options.useCache /\ ~options.useOnlyCache

\* a createTile whose lookup found a record not older than cacheMaxAge
FreshResolve(t) ==
  /\ tiles[t].used /\ tiles[t].lookup = "hit" /\ ~tiles[t].stale

\* a createTile whose lookup found no record, with the network allowed
MissResolve(t) ==
  /\ tiles[t].used /\ tiles[t].lookup = "miss" /\ ~tiles[t].storeErr
  /\ options.useCache /\ ~options.useOnlyCache

\* every done of tile t so far said: no error, the element shows blob
ServedBlob(t, blob) ==
  \A i \in 1..Len(tiles[t].dones) :
    /\ ~tiles[t].dones[i].err
    /\ tiles[t].dones[i].src = "dataUrl"
    /\ tiles[t].dones[i].blob = blob

\* C1: a stale record and a failed transport fetch: the caller gets the old
\* record's blob and no error, and once done has been invoked the store holds
\* exactly one live revision for the key.
C1_StaleFallbackOnFailure ==
  \A t \in Tiles :
    (StaleResolve(t) /\ tiles[t].fetchFailed /\ tiles[t].dones # <<>>)
      => /\ ServedBlob(t, tiles[t].data.blob)
         /\ LiveRevisions(tiles[t].key) = 1

\* C2: done receives an error only when the store holds no record for the key
\* and the transport fetch failed: a createTile whose lookup found a record
\* never hands an error to done.
C2_NoErrorWhenRecordExists ==
  \A t \in Tiles :
    (tiles[t].used /\ tiles[t].lookup = "hit")
      => \A i \in 1..Len(tiles[t].dones) : ~tiles[t].dones[i].err

\* C3: with useCache and useOnlyCache on (and a canvas, so that the store is
\* used) createTile issues no transport request, and a key with no record
\* ends with the empty image.
C3_CacheOnlyNoTransport ==
  \A t \in Tiles :
    (tiles[t].used /\ UseStore /\ options.useOnlyCache)
      => /\ tiles[t].requests = 0
         /\ (tiles[t].lookup = "miss" => tiles[t].src = "empty")

\* C4: a record not older than cacheMaxAge is delivered as it is, with no
\* transport request, whatever useOnlyCache says.
C4_FreshServedWithoutTransport ==
  \A t \in Tiles :
    FreshResolve(t)
      => /\ tiles[t].requests = 0
         /\ ServedBlob(t, tiles[t].data.blob)

\* C5: a stale record, saveToCache on, the transport fetch succeeds (and the
\* image is encoded): in the step that invokes done the store holds exactly
\* one live revision for the key, newer than the record the lookup found.
C5_RefreshedWhenDone ==
  [][\A t \in Tiles :
       (/\ StaleResolve(t) /\ options.saveToCache
        /\ tiles[t].src = "url"
        /\ Len(tiles'[t].dones) > Len(tiles[t].dones)
        /\ tiles'[t].saved = "ok")
         => /\ Cardinality(store'[tiles[t].key]) = 1
            /\ \A r \in store'[tiles[t].key] : r.ts > tiles[t].data.ts]_vars

\* done was invoked once, with no error, the element showing the image the
\* transport delivered
DeliveredFetched(t) ==
  tiles[t].dones = <<[err |-> FALSE, src |-> "url", blob |-> NoBlob,
                      img |-> tiles[t].img]>>

\* the store serves the put that tile t issued
PutServed(t) ==
  /\ storeQ # <<>>
  /\ Head(storeQ).op = "put" /\ Head(storeQ).by = "tile" /\ Head(storeQ).id = t
  /\ storeQ' = Tail(storeQ)

\* C6 as stated: no record, saveToCache on, the transport fetch succeeds:
\* done gets the fetched tile, and once the store has served the calls of
\* the createTile it holds exactly one record for the key, whose blob is the
\* encoding of the fetched image.
C6_MissFetchedAndStored ==
  \A t \in Tiles :
    (/\ MissResolve(t) /\ options.saveToCache
     /\ tiles[t].fetchOk /\ ~tiles[t].fetchFailed
     /\ tiles[t].dones # <<>>
     /\ Pending("tile", t, "put") = {})
      => /\ DeliveredFetched(t)
         /\ LiveRevisions(tiles[t].key) = 1
         /\ \A r \in store[tiles[t].key] : r.blob = Encode(tiles[t].img)

\* C6 as amended: no record, saveToCache on, the transport fetch succeeds
\* and the image is encoded: done gets the fetched tile, once; _saveTile
\* issues one put of the encoding of the fetched image; and when the store
\* has served that put it holds exactly one record for the key, which is that
\* encoding unless another createTile or seed stored the key first.
C6_MissFetchedEncodedAndStored ==
  /\ [](\A t \in Tiles :
          (/\ MissResolve(t) /\ options.saveToCache
           /\ tiles[t].saved = "ok" /\ ~tiles[t].fetchFailed)
            => DeliveredFetched(t))
  /\ [][\A t \in Tiles :
          /\ (/\ MissResolve(t) /\ options.saveToCache
              /\ tiles[t].saved # "ok" /\ tiles'[t].saved = "ok")
               => storeQ' = Append(storeQ,
                                   PutOp("tile", t, tiles[t].key,
                                         Encode(tiles'[t].img), now))
          /\ (MissResolve(t) /\ PutServed(t))
               => /\ Cardinality(store'[tiles[t].key]) = 1
                  /\ store[tiles[t].key] = {}
                       => \A r \in store'[tiles[t].key] :
                            /\ r.blob = Encode(tiles[t].img)
                            /\ r.ts = Head(storeQ).ts]_vars

\* C6 witness: a createTile that found no record, fetched, encoded, and whose
\* put the store has served: the record is the encoding of the fetched image
C6_Witness ==
  \E t \in Tiles :
    /\ MissResolve(t) /\ options.saveToCache
    /\ tiles[t].saved = "ok" /\ ~tiles[t].fetchFailed
    /\ DeliveredFetched(t)
    /\ Pending("tile", t, "put") = {}
    /\ \E r \in store[tiles[t].key] :
         r.blob = Encode(tiles[t].img) /\ r.rev >= nextRev - 1

\* C7 as stated: the remainingLength of successive seedprogress events
\* strictly decreases, the last one carries 0, and seedend is fired exactly
\* once, after the last item.
C7_ProgressDecreasesToZero ==
  \A s \in Seeds :
    /\ \A i \in 1..(Len(seeds[s].progress) - 1) :
         seeds[s].progress[i + 1] < seeds[s].progress[i]
    /\ seeds[s].seedend <= 1
    /\ seeds[s].st = "ended"
         => /\ seeds[s].seedend = 1
            /\ seeds[s].remaining = <<>>
            /\ seeds[s].progress # <<>>
            /\ seeds[s].progress[Len(seeds[s].progress)] = 0

\* C7 as amended: seedprogress is fired before each item is taken from the
\* queue, so the remainingLength values are queueLength, queueLength - 1, ...
\* and the last one carries 1; seedend is fired at most once, and exactly
\* once when every item has been handled, after the last seedprogress.
C7_ProgressDecreasesToOne ==
  \A s \in Seeds :
    /\ \A i \in 1..Len(seeds[s].progress) :
         seeds[s].progress[i] = seeds[s].queueLength - i + 1
    /\ seeds[s].seedend <= 1
    /\ seeds[s].seedend = 1 <=> seeds[s].st = "ended"
    /\ seeds[s].st = "ended"
         => /\ seeds[s].remaining = <<>>
            /\ seeds[s].waiting = "none"
            /\ Pending("seed", s, "get") = {}
            /\ Len(seeds[s].progress) = seeds[s].queueLength
            /\ seeds[s].progress[Len(seeds[s].progress)] = 1

\* C7 witness: a seed of two tiles that has ended after seedprogress 2, 1
C7_Witness ==
  \E s \in Seeds :
    /\ seeds[s].st = "ended" /\ seeds[s].seedend = 1
    /\ seeds[s].queueLength = 2
    /\ seeds[s].progress = <<2, 1>>

\* C8: a seed that has fired seedstart goes on to seedend whatever happens to
\* an item: as long as it has not fired seedend its next step is pending (a
\* lookup the store will answer, or the load of the item it is fetching), also
\* after the fetch or the encoding of an item has failed.
C8_SeedNeverStuck ==
  \A s \in Seeds :
    seeds[s].st = "running" => seeds[s].waiting \in {"lookup", "load"}

\* C9 as stated: the lookup and the transport request of the next item are
\* not issued while the put of an earlier item of the same seed is still to
\* be served.
C9_NextAfterPutCompleted ==
  \A s \in Seeds :
    (Pending("seed", s, "get") # {} \/ seeds[s].waiting = "load")
      => Pending("seed", s, "put") = {}

\* C9 as amended: a seed has at most one lookup or transport request
\* outstanding; the lookup of the next item is issued only by the step that
\* skips the item before it because a record exists, or by the load event of
\* that item, after _saveTile has issued (not completed) its put; the
\* transport request of an item is issued only by its lookup's callback.
C9_NextAfterItemHandled ==
  /\ [](\A s \in Seeds :
          /\ Cardinality(Pending("seed", s, "get"))
               = (IF seeds[s].waiting = "lookup" THEN 1 ELSE 0)
          /\ seeds[s].lookups = Len(seeds[s].progress)
          /\ seeds[s].requests <= seeds[s].lookups)
  /\ [][\A s \in Seeds :
          /\ seeds'[s].lookups > seeds[s].lookups
               => \/ seeds[s].st = "unused"
                  \/ /\ seeds[s].waiting = "lookup"
                     /\ store[seeds[s].url] # {}
                     /\ seeds'[s].requests = seeds[s].requests
                  \/ /\ seeds[s].waiting = "load"
                     /\ options.canvas
                          => \E i \in Pending("seed", s, "put")' :
                               /\ storeQ'[i].key = seeds[s].url
                               /\ \A j \in Pending("seed", s, "get")' : i < j
          /\ seeds'[s].requests > seeds[s].requests
               => /\ seeds[s].waiting = "lookup"
                  /\ seeds'[s].waiting = "load"
                  /\ seeds'[s].lookups = seeds[s].lookups]_vars

\* C9 witness: the lookup of the second item is pending while the put of the
\* first, fetched, item has not been served
C9_Witness ==
  \E s \in Seeds :
    /\ seeds[s].lookups = 2 /\ seeds[s].requests = 1
    /\ Pending("seed", s, "put") # {}
    /\ Pending("seed", s, "get") # {}

\* C10: two seed invocations never drain at the same time: at most one has
\* fired seedstart and not seedend, and at most one seed transport request
\* is in flight.
C10_OneSeedAtATime ==
  /\ Cardinality({s \in Seeds : seeds[s].st = "running"}) <= 1
  /\ Cardinality({s \in Seeds : seeds[s].waiting = "load"}) <= 1

\* the events, store calls and transport requests of seed invocation s
SeedSilent(s) ==
  /\ seeds[s].seedstart = 0
  /\ seeds[s].progress = <<>>
  /\ seeds[s].seedend = 0
  /\ seeds[s].lookups = 0
  /\ seeds[s].requests = 0
  /\ \A i \in 1..Len(storeQ) : ~(storeQ[i].by = "seed" /\ storeQ[i].id = s)

\* C11: seed called with minZoom > maxZoom, or with useCache off, returns at
\* once: the call fires no seedstart, seedprogress or seedend, issues no store
\* lookup and no transport request, then or later, and the step leaves the
\* store and its pending calls as they were.
C11_SeedNoOp ==
  /\ [](\A s \in Seeds :
          (/\ seeds[s].st # "unused"
           /\ (~options.useCache \/ seeds[s].minZoom > seeds[s].maxZoom))
            => /\ seeds[s].st = "returned"
               /\ SeedSilent(s))
  /\ [][\A s \in Seeds :
          (/\ seeds[s].st = "unused" /\ seeds'[s].st # "unused"
           /\ (~options.useCache \/ seeds'[s].minZoom > seeds'[s].maxZoom))
            => /\ store' = store
               /\ storeQ' = storeQ
               /\ \A r \in Seeds \ {s} : seeds'[r] = seeds[r]
               /\ tiles' = tiles]_vars

\* C11 witness: seed(1, 0) has returned on a layer with useCache on, on
\* which another seed is running
C11_Witness ==
  \E s \in Seeds :
    /\ seeds[s].st = "returned" /\ options.useCache
    /\ seeds[s].minZoom = 1 /\ seeds[s].maxZoom = 0
    /\ \E r \in Seeds : seeds[r].st = "running"

\* the callback of the lookup seed invocation s is waiting for runs
SeedLookupAnswered(s) ==
  /\ seeds[s].waiting = "lookup"
  /\ seeds'[s] # seeds[s]

\* C12: a seed issues one transport request for a queue key when the lookup
\* of the key returns no record (the store holds none, or the get failed),
\* and none, going on to the next item, when the store holds a record,
\* whatever its age; it looks up each of the N = queueLength urls of the zoom
\* range once, so a seed that ended and skipped nothing issued exactly N
\* transport requests.
C12_OneRequestPerMissingKey ==
  /\ [](\A s \in Seeds :
          /\ seeds[s].requests <= seeds[s].lookups
          /\ seeds[s].lookups <= seeds[s].queueLength
          /\ seeds[s].seedstart = 1
               => seeds[s].queueLength
                    = Len(SeedQueue(seeds[s].minZoom, seeds[s].maxZoom))
          /\ seeds[s].st = "ended"
               => seeds[s].lookups = seeds[s].queueLength)
  /\ [][\A s \in Seeds :
          IF SeedLookupAnswered(s)
          THEN IF store[seeds[s].url] = {} \/ seeds'[s].storeErr
               THEN /\ seeds'[s].requests = seeds[s].requests + 1
                    /\ seeds'[s].waiting = "load"
                    /\ seeds'[s].lookups = seeds[s].lookups
               ELSE /\ seeds'[s].requests = seeds[s].requests
                    /\ \/ seeds'[s].lookups = seeds[s].lookups + 1
                       \/ seeds'[s].st = "ended"
          ELSE seeds'[s].requests = seeds[s].requests]_vars

\* C12 witness: seed(0, 1) over a store that was empty has ended after
\* seedstart with queueLength 2 and two transport requests, and both keys
\* have a record
C12_Witness ==
  \E s \in Seeds :
    /\ seeds[s].st = "ended" /\ seeds[s].seedstart = 1
    /\ seeds[s].queueLength = 2 /\ seeds[s].requests = 2
    /\ \A k \in Keys : \E r \in store[k] : r.rev >= 2
    /\ ~seeds[s].storeErr

\* what done was told by tile t, whose only request was the one of line 315:
\* nothing while the request is in flight, then the transport's result, once
TransportResult(t) ==
  IF tiles[t].loading
  THEN tiles[t].dones = <<>>
  ELSE /\ tiles[t].fetchOk # tiles[t].fetchFailed
       /\ tiles[t].dones = <<[err |-> tiles[t].fetchFailed, src |-> "url",
                              blob |-> NoBlob, img |-> tiles[t].img]>>
       /\ tiles[t].fetchOk => tiles[t].img.of = tiles[t].key

\* C13: with useCache off createTile only passes the url to the image: it
\* issues no store lookup, fires neither tilecachehit nor tilecachemiss,
\* issues one transport request and hands its result to done (the tile on
\* load, the error on failure); no store call is ever pending and the store
\* keeps the documents it was opened with.
C13_PassthroughWithoutCache ==
  ~options.useCache
    => /\ storeQ = <<>>
       /\ nextRev = 2
       /\ \A k \in Keys : \A r \in store[k] : r.rev = 1
       /\ \A t \in Tiles :
            tiles[t].used
              => /\ tiles[t].lookup = "none"
                 /\ tiles[t].saved = "none"
                 /\ tiles[t].requests = 1
                 /\ tiles[t].src = "url"
                 /\ TransportResult(t)

\* C13 witness: with useCache off and a document in the store, one createTile
\* has handed the loaded tile to done and another the transport's error
C13_Witness ==
  /\ ~options.useCache
  /\ store["A"] # {}
  /\ \E t, u \in Tiles :
       /\ tiles[t].used /\ tiles[t].fetchOk /\ Len(tiles[t].dones) = 1
       /\ tiles[u].used /\ tiles[u].fetchFailed /\ Len(tiles[u].dones) = 1

\* toDataURL threw in the _saveTile of tile t, run on the image the
\* transport delivered
EncodeFailedAfterFetch(t) ==
  /\ tiles[t].used /\ options.saveToCache
  /\ tiles[t].saved = "throws" /\ tiles[t].src = "url"

\* C14: when toDataURL throws after a successful fetch (a miss or a stale
\* refresh, saveToCache on), tilecacheerror is fired, the step changes
\* neither the store nor its pending calls, the createTile never issues a
\* remove or a put, and done is invoked in that step, with no error, the
\* tile showing the fetched image.
C14_EncodeFailureKeepsTile ==
  /\ [](\A t \in Tiles :
          EncodeFailedAfterFetch(t)
            => /\ tiles[t].lookup \in {"hit", "miss"}
               /\ Pending("tile", t, "remove") = {}
               /\ Pending("tile", t, "put") = {}
               /\ tiles[t].dones # <<>>
               /\ tiles[t].dones[Len(tiles[t].dones)]
                    = [err |-> FALSE, src |-> "url", blob |-> NoBlob,
                       img |-> [of |-> tiles[t].key, at |-> tiles[t].img.at]]
               /\ (nTiles + nSeeds = 1 /\ tiles[t].lookup = "hit")
                    => store[tiles[t].key] = {tiles[t].data}
               /\ (nTiles + nSeeds = 1 /\ tiles[t].lookup = "miss"
                                       /\ ~tiles[t].storeErr)
                    => store[tiles[t].key] = {})
  /\ [][\A t \in Tiles :
          (tiles[t].saved # "throws" /\ EncodeFailedAfterFetch(t)')
            => /\ store' = store
               /\ storeQ' = storeQ
               /\ Len(tiles'[t].dones) = Len(tiles[t].dones) + 1]_vars

\* C14 witness: the refresh of a stale record was fetched, toDataURL threw,
\* done was invoked once and the old record is still in the store
C14_Witness ==
  \E t \in Tiles :
    /\ EncodeFailedAfterFetch(t)
    /\ StaleResolve(t)
    /\ Len(tiles[t].dones) = 1
    /\ store[tiles[t].key] = {tiles[t].data}

RefreshSaved(t) ==
  /\ StaleResolve(t) /\ options.saveToCache
  /\ tiles[t].src = "url" /\ tiles[t].saved = "ok"

\* C16: a successful refresh of a stale record writes the new revision before
\* (or together with) the deletion of the old one: from the moment _saveTile
\* has issued its calls the key has at least one live revision, in every
\* intermediate state, so no lookup of the key finds nothing.
C16_RefreshNeverLeavesKeyEmpty ==
  \A t \in Tiles :
    RefreshSaved(t) => LiveRevisions(tiles[t].key) >= 1

\* the refresh request of tile t (the one the lookup callback issued for a
\* stale record) has ended with a load event
RefreshFetched(t) ==
  /\ StaleResolve(t)
  /\ tiles[t].src = "url" /\ ~tiles[t].loading

\* C17: a stale record, useOnlyCache off, the refresh fetch succeeds: done is
\* invoked with the newly fetched tile, with saveToCache on and with
\* saveToCache off; stated for the state the load event of the refresh
\* leaves, in which done must have been invoked.
C17_RefreshCompletes ==
  \A t \in Tiles :
    RefreshFetched(t)
      => /\ tiles[t].dones # <<>>
         /\ tiles[t].dones[Len(tiles[t].dones)]
              = [err |-> FALSE, src |-> "url", blob |-> NoBlob,
                 img |-> tiles[t].img]

\* the event tile t has fired: tilecachehit or tilecachemiss
CacheEvent(t) ==
  IF tiles[t].lookup = "hit" THEN "tilecachehit"
  ELSE IF tiles[t].lookup = "miss" THEN "tilecachemiss"
  ELSE "none"

\* C18 as stated: every createTile with useCache on whose lookup is not
\* pending has fired exactly one of tilecachehit and tilecachemiss.
C18_HitOrMissWithCache ==
  \A t \in Tiles :
    (tiles[t].used /\ options.useCache /\ Pending("tile", t, "get") = {})
      => CacheEvent(t) \in {"tilecachehit", "tilecachemiss"}

\* C18 as amended: a createTile with useCache on and a canvas issues one
\* lookup and fires exactly one of tilecachehit and tilecachemiss, when the
\* callback runs: tilecachehit if and only if the lookup returned a record,
\* tilecachemiss when the store holds none or the get failed; without a
\* canvas (or with useCache off) it issues no lookup and fires neither.
C18_HitOrMissWithCacheAndCanvas ==
  /\ [](\A t \in Tiles :
          tiles[t].used
            => IF options.useCache /\ options.canvas
               THEN /\ Cardinality(Pending("tile", t, "get"))
                         = (IF tiles[t].lookup = "pending" THEN 1 ELSE 0)
                    /\ tiles[t].lookup = "pending"
                         \/ CacheEvent(t) \in {"tilecachehit", "tilecachemiss"}
                    /\ tiles[t].storeErr => CacheEvent(t) = "tilecachemiss"
               ELSE /\ Pending("tile", t, "get") = {}
                    /\ tiles[t].lookup = "none")
  /\ [][\A t \in Tiles :
          /\ (tiles[t].used /\ tiles[t].lookup # "pending")
               => tiles'[t].lookup = tiles[t].lookup
          /\ (tiles[t].lookup = "pending" /\ tiles'[t].lookup # "pending")
               => /\ CacheEvent(t)' = "tilecachehit"
                       <=> (/\ store[tiles[t].key] # {}
                            /\ ~tiles'[t].storeErr
                            /\ tiles'[t].data \in store[tiles[t].key])
                  /\ CacheEvent(t)' = "tilecachemiss"
                       <=> (store[tiles[t].key] = {} \/ tiles'[t].storeErr)]_vars

\* C18 witness: a lookup failed with a store error although the key has a
\* record, and the createTile fired tilecachemiss; another found the record
\* and fired tilecachehit
C18_Witness ==
  \E t, u \in Tiles :
    /\ tiles[t].used /\ tiles[t].storeErr
    /\ CacheEvent(t) = "tilecachemiss"
    /\ store[tiles[t].key] # {}
    /\ tiles[u].used /\ tiles[u].key = tiles[t].key
    /\ CacheEvent(u) = "tilecachehit"

\* the refresh of tile t failed: the lookup found a stale record and no
\* transport request of the tile has loaded
RefreshFailed(t) ==
  /\ StaleResolve(t)
  /\ tiles[t].fetchFailed /\ ~tiles[t].fetchOk
  /\ tiles[t].src = "dataUrl"

\* C19: a refresh that fails leaves the record untouched: the createTile
\* issues no remove and no put, and when it is the only caller the store
\* holds the record the lookup found, with its timestamp, blob and
\* revision, so the record is still stale.
C19_FailedRefreshKeepsRecord ==
  \A t \in Tiles :
    RefreshFailed(t)
      => /\ Pending("tile", t, "remove") = {}
         /\ Pending("tile", t, "put") = {}
         /\ tiles[t].saved = "none"
         /\ nTiles + nSeeds = 1
              => /\ store[tiles[t].key] = {tiles[t].data}
                 /\ \A r \in store[tiles[t].key] : IsStale(r)

\* C20: done is invoked at most once for each createTile, whatever the order
\* of the lookup callback and the load and error events of the image.
C20_DoneAtMostOnce ==
  \A t \in Tiles : Len(tiles[t].dones) <= 1

====
